---- MODULE Spec2Model ----
(***************************************************************************)
(* Verification model of the Liteshift calculators:                        *)
(*   apps/mortgage  - _pmt, _amortize and the /mortgage handler            *)
(*   apps/compound  - simulate_paths                                       *)
(*   apps/fire      - the /fire handler                                    *)
(*   apps/drawdown  - the /drawdown handler                                *)
(*                                                                         *)
(* Numbers.  The amortization engine tests its balances against zero and   *)
(* against a rounding-noise threshold, so its Python floats are modelled   *)
(* as binary floating-point numbers <<m, e>> (value m * 2^e) whose every   *)
(* operation rounds to nearest-even at MantBits significant bits: IEEE     *)
(* arithmetic at a reduced width.  The simulators are modelled over exact  *)
(* rationals <<n, d>>; log-returns are measured in units of ln 2, so that  *)
(* exp is an exact power of two, and the normal draws are a                *)
(* nondeterministic choice over a small set of shocks.                     *)
(***************************************************************************)
EXTENDS Integers, Sequences, FiniteSets, TLC

VARIABLES
    pc,      \* where the handler under way stands
    req,     \* its request (or the arguments of the call)
    resp,    \* its response, None until it returns
    am,      \* the locals of the _amortize call under way
    main,    \* what the MAIN call of /mortgage returned
    wealth,  \* the ensemble of a simulator: one row per path
    loc,     \* locals of a simulator that its response does not carry
    rng,     \* the state of numpy's process-wide generator
    thr      \* the requests one process is handling concurrently

vars == <<pc, req, resp, am, main, wealth, loc, rng, thr>>

mortgageVars == <<am, main>>

simVars == <<wealth, loc>>

rngVars == <<rng, thr>>

None == <<>>

(***************************************************************************)
(* Binary floating point at MantBits significant bits.                     *)
(* A float is <<m, e>> with m odd, or <<0, 0>>.                            *)
(***************************************************************************)
MantBits == 12

RECURSIVE Pow2(_)
Pow2(k) == IF k <= 0 THEN 1 ELSE 2 * Pow2(k - 1)

Abs(n) == IF n < 0 THEN -n ELSE n

Sgn(n) == IF n < 0 THEN -1 ELSE IF n > 0 THEN 1 ELSE 0

RECURSIVE BitLen(_)
BitLen(n) == IF n = 0 THEN 0 ELSE 1 + BitLen(n \div 2)

RECURSIVE Norm(_, _)
Norm(m, e) ==
    IF m = 0 THEN <<0, 0>>
    ELSE IF m % 2 = 0 THEN Norm(m \div 2, e + 1)
    ELSE <<m, e>>

\* s * (a + sticky) * 2^e rounded to nearest, ties to even, at MantBits bits
\* (a >= 0; sticky says that the exact value lies strictly above a).
Round(s, a, e, sticky) ==
    LET k == BitLen(a) - MantBits IN
    IF k <= 0 THEN Norm(s * a, e)
    ELSE LET q    == a \div Pow2(k)
             r    == a % Pow2(k)
             half == Pow2(k - 1)
             up   == r > half \/ (r = half /\ (sticky \/ q % 2 = 1))
         IN  Norm(s * (IF up THEN q + 1 ELSE q), e + k)

Zero == <<0, 0>>

FromInt(n) == Round(Sgn(n), Abs(n), 0, FALSE)

\* the mantissa shifted left to exactly MantBits bits, and its exponent
LMant(x) == Abs(x[1]) * Pow2(MantBits - BitLen(Abs(x[1])))

LExp(x) == x[2] - (MantBits - BitLen(Abs(x[1])))

FNeg(x) == <<-x[1], x[2]>>

FAdd(x, y) ==
    IF x[1] = 0 THEN y
    ELSE IF y[1] = 0 THEN x
    ELSE LET big   == IF LExp(x) >= LExp(y) THEN x ELSE y
             small == IF LExp(x) >= LExp(y) THEN y ELSE x
             gap   == LExp(big) - LExp(small)
         IN  IF gap > MantBits + 1 THEN big
             ELSE LET sum == Sgn(big[1]) * LMant(big) * Pow2(gap)
                             + Sgn(small[1]) * LMant(small)
                  IN  Round(Sgn(sum), Abs(sum), LExp(small), FALSE)

FSub(x, y) == FAdd(x, FNeg(y))

FMul(x, y) ==
    IF x[1] = 0 \/ y[1] = 0 THEN Zero
    ELSE Round(Sgn(x[1]) * Sgn(y[1]), Abs(x[1]) * Abs(y[1]), x[2] + y[2], FALSE)

\* x / y for y # 0
FDiv(x, y) ==
    IF x[1] = 0 THEN Zero
    ELSE LET n == LMant(x) * Pow2(MantBits + 2)
             d == Abs(y[1])
         IN  Round(Sgn(x[1]) * Sgn(y[1]), n \div d,
                   LExp(x) - y[2] - (MantBits + 2), n % d # 0)

FLt(x, y) == FSub(x, y)[1] < 0

FLe(x, y) == FSub(x, y)[1] <= 0

FMax(x, y) == IF FLt(x, y) THEN y ELSE x

FAbs(x) == <<Abs(x[1]), x[2]>>

RECURSIVE FPowInt(_, _)
FPowInt(x, n) == IF n = 0 THEN FromInt(1) ELSE FMul(FPowInt(x, n - 1), x)

\* x ** (-n), n > 0
FPowNeg(x, n) == FDiv(FromInt(1), FPowInt(x, n))

RECURSIVE FSum(_)
FSum(xs) == IF xs = <<>> THEN Zero ELSE FAdd(FSum(SubSeq(xs, 1, Len(xs) - 1)), xs[Len(xs)])

\* floor(2^s / f) and the remainder, for f > 1
RECURSIVE DivPow2(_, _)
DivPow2(s, f) ==
    IF s = 0 THEN <<0, 1>>
    ELSE LET p == DivPow2(s - 1, f)
         IN  IF 2 * p[2] >= f THEN <<2 * p[1] + 1, 2 * p[2] - f>>
             ELSE <<2 * p[1], 2 * p[2]>>

\* |x| < 1 / (2^k * f) for an odd f > 1: the float x against a decimal
\* literal 10^(-k), f = 5^k, compared exactly
BelowLiteral(x, k, f) ==
    LET s == -(x[2] + k) IN
    IF x[1] = 0 THEN TRUE
    ELSE IF s <= 0 THEN FALSE
    ELSE IF s >= BitLen(f) + MantBits + 1 THEN TRUE
    ELSE Abs(x[1]) <= DivPow2(s, f)[1]

FivePow6 == 15625

FivePow12 == 244140625

\* np.rint: to the nearest integer, ties to even
FRint(x) ==
    IF x[2] >= 0 THEN x
    ELSE IF -x[2] > MantBits THEN Zero
    ELSE LET k    == -x[2]
             q    == Abs(x[1]) \div Pow2(k)
             r    == Abs(x[1]) % Pow2(k)
             half == Pow2(k - 1)
             up   == r > half \/ (r = half /\ q % 2 = 1)
         IN  FromInt(Sgn(x[1]) * (IF up THEN q + 1 ELSE q))

RECURSIVE TenPow(_)
TenPow(d) == IF d = 0 THEN 1 ELSE 10 * TenPow(d - 1)

round_float(x, d) ==
    IF d = 0 THEN FRint(x)
    ELSE FDiv(FRint(FMul(x, FromInt(TenPow(d)))), FromInt(TenPow(d)))

round_list(xs, d) == [k \in 1..Len(xs) |-> round_float(xs[k], d)]

(***************************************************************************)
(* apps/mortgage: _pmt and _amortize                                       *)
(***************************************************************************)
_pmt(balance, i, n) ==
    IF n <= 0 THEN balance
    ELSE IF BelowLiteral(i, 12, FivePow12) THEN FDiv(balance, FromInt(n))
    ELSE FDiv(FMul(balance, i),
              FSub(FromInt(1), FPowNeg(FAdd(FromInt(1), i), n)))

MapGet(map, k) == IF k \in DOMAIN map THEN map[k] ELSE Zero

\* lines 70-82: the locals of _amortize before its loop
AmortizeEntry(principal, term_m, fixed_m, fixed_r_yr, var_r_yr, monthly_overpay, extra_map, recalc_on_change) ==
    LET i_fixed == FDiv(fixed_r_yr, FromInt(12))
        i_var   == FDiv(var_r_yr, FromInt(12))
    IN  [ term_m |-> term_m, fixed_m |-> fixed_m,
          i_fixed |-> i_fixed, i_var |-> i_var,
          monthly_overpay |-> monthly_overpay, extra_map |-> extra_map,
          recalc_on_change |-> recalc_on_change,
          bal |-> principal,
          balances |-> <<principal>>, sched |-> <<>>, totalp |-> <<>>,
          interest |-> <<>>, principal_paid |-> <<>>,
          months_left |-> term_m,
          pmt |-> _pmt(principal, i_fixed, term_m),
          m |-> 1, stopped |-> FALSE ]

\* line 103-104: the clamp of rounding noise just below zero
ClampNoise(new_bal) ==
    IF new_bal[1] < 0 /\ BelowLiteral(new_bal, 6, FivePow6) THEN Zero ELSE new_bal

\* a principal portion that is clamped at zero
PrincClamped(pay_total, intr) == FMax(Zero, FSub(pay_total, intr))

\* line 100: the principal actually paid
PrincActual(pay_total, intr) == FSub(pay_total, intr)

\* a rate that is the variable one in every period
RateAtVariable(a, k) == a.i_var

\* line 85: the rate _amortize applies in period k
RateAt(a, k) == IF k <= a.fixed_m THEN a.i_fixed ELSE a.i_var

\* lines 85-115: one iteration of the loop, for m = a.m
AmortizeIter(a) ==
    LET m            == a.m
        current_rate == RateAt(a, m)
        recalc       == a.recalc_on_change /\ m = a.fixed_m + 1
        months_left  == IF recalc THEN a.term_m - (m - 1) ELSE a.months_left
        pmt          == IF recalc THEN _pmt(a.bal, current_rate, months_left) ELSE a.pmt
        intr         == FMul(a.bal, current_rate)
        lump         == MapGet(a.extra_map, m)
        pay_total    == FAdd(FAdd(pmt, a.monthly_overpay), lump)
        new_bal      == ClampNoise(FSub(FAdd(a.bal, intr), pay_total))
        princ_actual == PrincActual(pay_total, intr)
    IN  [a EXCEPT !.months_left = months_left, !.pmt = pmt,
                  !.balances = Append(@, new_bal),
                  !.sched = Append(@, pmt),
                  !.totalp = Append(@, pay_total),
                  !.interest = Append(@, intr),
                  !.principal_paid = Append(@, princ_actual),
                  !.bal = new_bal,
                  !.m = m + 1,
                  !.stopped = FLe(new_bal, Zero)]

\* a loop that runs to the end of the term whatever the balance
LoopingToTerm(a) == a # None /\ a.m <= a.term_m

\* the loop of line 84 has another iteration to run
Looping(a) == a # None /\ ~a.stopped /\ a.m <= a.term_m

\* line 117
AmortizeResult(a) ==
    [balances |-> a.balances, sched |-> a.sched, totalp |-> a.totalp,
     interest |-> a.interest, principal_paid |-> a.principal_paid]

\* lines 84-115: the loop, run from a to its end
RECURSIVE AmortizeLoop(_)
AmortizeLoop(a) == IF Looping(a) THEN AmortizeLoop(AmortizeIter(a)) ELSE a

\* lines 68-117: a whole call, on a record of its arguments
_amortize(r) ==
    AmortizeResult(AmortizeLoop(AmortizeEntry(r.principal, r.term_m, r.fixed_m, r.fixed_r_yr, r.var_r_yr, r.monthly_overpay, r.extra_map, r.recalc_on_change)))

(***************************************************************************)
(* apps/mortgage: the /mortgage handler                                    *)
(***************************************************************************)
MonthsPerYear == 12

\* lines 133-138: extra payments keyed by month index, same-month lumps added
RECURSIVE ExtraMap(_, _)
ExtraMap(eps, term_m) ==
    IF eps = <<>> THEN <<>>
    ELSE LET rest == ExtraMap(SubSeq(eps, 1, Len(eps) - 1), term_m)
             ep   == eps[Len(eps)]
             idx  == ep.year * MonthsPerYear + ep.month + 1
         IN  IF 1 <= idx /\ idx <= term_m
             THEN [k \in DOMAIN rest \cup {idx} |->
                      IF k = idx THEN FAdd(MapGet(rest, idx), ep.amount) ELSE rest[k]]
             ELSE rest

\* lines 141-150: the MAIN call
MainCall(r) ==
    AmortizeEntry(r.principal, r.term_years * MonthsPerYear,
                  r.fixed_years * MonthsPerYear, r.fixed_rate, r.variable_rate,
                  r.monthly_overpayment,
                  ExtraMap(r.extra_payments, r.term_years * MonthsPerYear),
                  r.recalc_on_rate_change)

\* lines 153-162: the BASELINE call
BaselineCall(r) ==
    AmortizeEntry(r.principal, r.term_years * MonthsPerYear,
                  r.fixed_years * MonthsPerYear, r.fixed_rate, r.variable_rate,
                  Zero, <<>>, r.recalc_on_rate_change)

\* lines 169-171
_pad(arr, L) ==
    IF Len(arr) >= L THEN SubSeq(arr, 1, L)
    ELSE arr \o [k \in 1..(L - Len(arr)) |-> arr[Len(arr)]]

\* lines 181-185: the first (0-based) index whose balance is <= 0
_payoff_month(bals) ==
    IF \E i \in 1..Len(bals) : FLe(bals[i], Zero)
    THEN (CHOOSE i \in 1..Len(bals) :
             /\ FLe(bals[i], Zero)
             /\ \A j \in 1..(i - 1) : ~FLe(bals[j], Zero)) - 1
    ELSE Len(bals) - 1

Max(a, b) == IF a >= b THEN a ELSE b

\* lines 165-221
MortgageResponse(r, run, base) ==
    LET d                 == Max(0, r.decimals)
        L                 == Max(Len(run.balances), Len(base.balances))
        balances          == _pad(run.balances, L)
        baseline_balance  == _pad(base.balances, L)
        sched             == _pad(run.sched, L - 1)
        totalp            == _pad(run.totalp, L - 1)
        intr              == _pad(run.interest, L - 1)
        princ             == _pad(run.principal_paid, L - 1)
        m_off             == _payoff_month(balances)
        m_base            == _payoff_month(base.balances)
        total_interest    == FSum(intr)
        baseline_interest == FSum(base.interest)
        interest_saved    == FMax(Zero, FSub(baseline_interest, total_interest))
        months_saved      == Max(0, m_base - m_off)
        ending_balance    == balances[Len(balances)]
    IN  [ labels           |-> [k \in 1..L |-> k - 1],
          balance          |-> round_list(balances, d),
          baseline_balance |-> round_list(baseline_balance, d),
          schedule_payment |-> round_list(<<Zero>> \o sched, d),
          total_payment    |-> round_list(<<Zero>> \o totalp, d),
          interest         |-> round_list(<<Zero>> \o intr, d),
          principal        |-> round_list(<<Zero>> \o princ, d),
          summary |->
            [ payoff_months           |-> m_off,
              baseline_payoff_months  |-> m_base,
              total_interest          |-> round_float(total_interest, d),
              baseline_total_interest |-> round_float(baseline_interest, d),
              interest_saved          |-> round_float(interest_saved, d),
              months_saved            |-> months_saved,
              ending_balance          |-> round_float(ending_balance, d),
              is_balloon              |-> FLt(Zero, ending_balance),
              fixed_months            |-> r.fixed_years * MonthsPerYear ] ]

(***************************************************************************)
(* Inputs                                                                  *)
(***************************************************************************)
MaxTermYears == 1

MaxTerm == 4

\* annual rates: 0, 6.25 %, 300 %, 600 %
Rates == {Zero, <<1, -4>>, <<3, 0>>, <<3, 1>>}

MortgageRequests ==
    [ principal : {FromInt(100000), FromInt(1200)},
      term_years : 0..MaxTermYears,
      fixed_years : 0..MaxTermYears,
      fixed_rate : {Zero, <<1, -4>>},
      variable_rate : {Zero, <<1, -4>>, <<3, 1>>},
      monthly_overpayment : {Zero, FromInt(100), FromInt(20000)},
      extra_payments : { <<>>,
                         <<[year |-> 0, month |-> 2, amount |-> FromInt(500)]>>,
                         <<[year |-> 0, month |-> 2, amount |-> FromInt(500)],
                           [year |-> 0, month |-> 2, amount |-> FromInt(250)],
                           [year |-> 3, month |-> 0, amount |-> FromInt(250)]>> },
      recalc_on_rate_change : BOOLEAN,
      decimals : {1} ]

\* calls with a principal that is not positive (the request is not validated)
AmortizeArgsNothingOwed ==
    [ principal : {Zero, FNeg(FromInt(7))},
      term_m : 0..MaxTerm,
      fixed_m : {0, MaxTerm + 1},
      fixed_r_yr : Rates,
      var_r_yr : {Zero},
      monthly_overpay : {Zero, FromInt(100)},
      extra_map : {<<>>},
      recalc_on_change : {TRUE} ]

AmortizeArgs ==
    [ principal : {FromInt(100000), FromInt(7), <<7, -12>>, <<11, -12>>},
      term_m : 0..MaxTerm,
      fixed_m : 0..(MaxTerm + 1),
      fixed_r_yr : Rates,
      var_r_yr : Rates,
      monthly_overpay : {Zero, FromInt(100)},
      extra_map : {<<>>, (2 :> FromInt(500))},
      recalc_on_change : BOOLEAN ]
    \cup AmortizeArgsNothingOwed

(***************************************************************************)
(* The /mortgage handler as a state machine                                *)
(***************************************************************************)
InitMortgage ==
    /\ req \in MortgageRequests
    /\ pc = "main"
    /\ am = MainCall(req)
    /\ main = None
    /\ resp = None
    /\ wealth = None /\ loc = None /\ rng = None /\ thr = None

\* one iteration of the loop of _amortize (lines 84-115)
AmortizeStep ==
    /\ pc \in {"main", "baseline", "amortize"}
    /\ Looping(am)
    /\ am' = AmortizeIter(am)
    /\ UNCHANGED <<pc, req, main, resp, simVars, rngVars>>

\* the MAIN call returns and the BASELINE call starts
MortgageBaseline ==
    /\ pc = "main"
    /\ ~Looping(am)
    /\ main' = AmortizeResult(am)
    /\ am' = BaselineCall(req)
    /\ pc' = "baseline"
    /\ UNCHANGED <<req, resp, simVars, rngVars>>

\* the BASELINE call returns and the response is built
MortgageRespond ==
    /\ pc = "baseline"
    /\ ~Looping(am)
    /\ resp' = MortgageResponse(req, main, AmortizeResult(am))
    /\ pc' = "done"
    /\ UNCHANGED <<req, am, main, simVars, rngVars>>

NextMortgage == AmortizeStep \/ MortgageBaseline \/ MortgageRespond

SpecMortgage == InitMortgage /\ [][NextMortgage]_vars

(***************************************************************************)
(* _amortize called on its own                                             *)
(***************************************************************************)
InitAmortize ==
    /\ req \in AmortizeArgs
    /\ pc = "amortize"
    /\ am = AmortizeEntry(req.principal, req.term_m, req.fixed_m, req.fixed_r_yr,
                          req.var_r_yr, req.monthly_overpay, req.extra_map,
                          req.recalc_on_change)
    /\ main = None
    /\ resp = None
    /\ wealth = None /\ loc = None /\ rng = None /\ thr = None

AmortizeReturn ==
    /\ pc = "amortize"
    /\ ~Looping(am)
    /\ resp' = AmortizeResult(am)
    /\ pc' = "returned"
    /\ UNCHANGED <<req, am, main, simVars, rngVars>>

NextAmortize == AmortizeStep \/ AmortizeReturn

SpecAmortize == InitAmortize /\ [][NextAmortize]_vars

(***************************************************************************)
(* Claims about the amortization engine                                    *)
(***************************************************************************)
BaselineRun == AmortizeResult(am)

\* C1: in every /mortgage response, total_interest is the sum of the interest
\* portions of exactly the periods the MAIN run recorded,
\* baseline_total_interest is the sum over the periods the BASELINE run
\* recorded, interest_saved is their difference and months_saved is the
\* baseline payoff period minus the actual payoff period.
C1_SummaryFromRecordedPeriods ==
    pc = "done" =>
        LET d  == Max(0, req.decimals)
            ti == FSum(main.interest)
            bi == FSum(BaselineRun.interest)
        IN  /\ resp.summary.total_interest = round_float(ti, d)
            /\ resp.summary.baseline_total_interest = round_float(bi, d)
            /\ resp.summary.interest_saved = round_float(FSub(bi, ti), d)
            /\ resp.summary.months_saved =
                  _payoff_month(BaselineRun.balances) - _payoff_month(main.balances)

\* four units of rounding of x: the two roundings of bal + intr - pay_total
\* cannot move the result by more
RoundingSlack(x) == FMul(x, <<1, 2 - MantBits>>)

\* C6 as stated: in every period _amortize records, total_payment is
\* interest_portion + principal_portion, the principal portion being the
\* total payment minus the interest accrued on the previous balance, kept
\* negative when the payment is smaller than that interest; and then the
\* balance after the period is larger than the balance before it.
C6_SplitExactAndBalanceGrows ==
    pc \in {"amortize", "returned"} =>
        \A k \in 1..Len(am.totalp) :
            /\ am.interest[k] = FMul(am.balances[k], RateAt(am, k))
            /\ am.totalp[k] = FAdd(am.interest[k], am.principal_paid[k])
            /\ FLt(am.totalp[k], am.interest[k]) =>
                  /\ FLt(am.principal_paid[k], Zero)
                  /\ FLt(am.balances[k], am.balances[k + 1])

\* C6 as amended: in every period _amortize records, the interest portion is
\* the previous balance times the period's rate, the principal portion is the
\* floating-point difference total_payment - interest (never clamped: it is
\* negative whenever the payment is smaller than the interest), and the
\* balance after such a period is larger than the balance before it whenever
\* the shortfall exceeds the rounding slack of balance + interest.
C6_SplitRoundedAndBalanceGrows ==
    pc \in {"amortize", "returned"} =>
        \A k \in 1..Len(am.totalp) :
            /\ am.interest[k] = FMul(am.balances[k], RateAt(am, k))
            /\ am.principal_paid[k] = FSub(am.totalp[k], am.interest[k])
            /\ FLt(am.totalp[k], am.interest[k]) =>
                  /\ FLt(am.principal_paid[k], Zero)
                  /\ FLt(RoundingSlack(FAdd(am.balances[k], am.interest[k])),
                         FAbs(am.principal_paid[k]))
                        => FLt(am.balances[k], am.balances[k + 1])

\* _amortize has returned a schedule with a period of negative amortization:
\* a negative principal portion and a balance that grew
C6_NegativeAmortizationRecorded ==
    /\ pc = "returned"
    /\ \E k \in 1..Len(am.principal_paid) :
          /\ FLt(am.principal_paid[k], Zero)
          /\ FLt(RoundingSlack(FAdd(am.balances[k], am.interest[k])),
                 FAbs(am.principal_paid[k]))
          /\ FLt(am.balances[k], am.balances[k + 1])

ZeroRatePlain(a) ==
    /\ a.i_fixed = Zero /\ a.i_var = Zero
    /\ a.monthly_overpay = Zero /\ a.extra_map = <<>>
    /\ a.term_m >= 1

\* C7: for a zero-rate loan with no overpayment and no lumps every scheduled
\* payment is principal / term and the balance is exactly 0 at period term
\* and positive before it; and _pmt returns the balance when n <= 0.
C7_ZeroRateEndsAtExactlyZero ==
    /\ pc = "returned" /\ ZeroRatePlain(am) =>
        /\ Len(am.balances) = am.term_m + 1
        /\ \A k \in 1..Len(am.sched) :
              am.sched[k] = FDiv(req.principal, FromInt(am.term_m))
        /\ \A k \in 1..am.term_m : FLt(Zero, am.balances[k])
        /\ am.balances[am.term_m + 1] = Zero
    /\ \A n \in {-1, 0} : _pmt(req.principal, Zero, n) = req.principal

\* line 97 for period k, from what _amortize recorded (balances[k] is the
\* balance after period k - 1)
NewBalance(a, k) == FSub(FAdd(a.balances[k], a.interest[k]), a.totalp[k])

\* x lies in the open interval (-1e-6, 0)
NoiseBelowZero(x) == x[1] < 0 /\ BelowLiteral(x, 6, FivePow6)

\* the lists of _amortize: one balance more than periods, at most term_m
\* periods, and in the lists it returns every balance the result of its
\* period, 0 standing for a result in (-1e-6, 0)
ListsInStep(a) ==
    /\ Len(a.balances) = Len(a.sched) + 1
    /\ Len(a.totalp) = Len(a.sched)
    /\ Len(a.interest) = Len(a.sched)
    /\ Len(a.principal_paid) = Len(a.sched)
    /\ Len(a.sched) <= a.term_m
    /\ \A k \in 1..Len(a.sched) : ~NoiseBelowZero(a.balances[k + 1])
    /\ ~Looping(a) =>
          \A k \in 1..Len(a.sched) :
              LET new_bal == NewBalance(a, k)
              IN  a.balances[k + 1] = IF NoiseBelowZero(new_bal) THEN Zero ELSE new_bal

\* C12 as stated: once the balance after a period is <= 0 no further period
\* is recorded: every recorded balance except the last is strictly positive,
\* at most term_m periods are recorded, the balances list has one entry more
\* than each per-period list, and a balance in (-1e-6, 0) is recorded as 0.
C12_AllButLastPositive ==
    pc \in {"amortize", "returned"} =>
        /\ ListsInStep(am)
        /\ \A k \in 1..(Len(am.balances) - 1) : FLt(Zero, am.balances[k])
        /\ \A k \in 1..Len(am.balances) : ~NoiseBelowZero(am.balances[k])

\* C12 as amended: the same for the balances after a period; the first entry
\* of the balances list is the principal as given, and a period is recorded
\* for it even when it is <= 0.
C12_AllButLastPositiveAfterStart ==
    pc \in {"amortize", "returned"} =>
        /\ ListsInStep(am)
        /\ \A k \in 2..(Len(am.balances) - 1) : FLt(Zero, am.balances[k])
        /\ am.balances[1] = req.principal
        /\ am.term_m >= 1 /\ pc = "returned" => Len(am.balances) >= 2
        /\ FLt(Zero, req.principal) =>
              \A k \in 1..(Len(am.balances) - 1) : FLt(Zero, am.balances[k])

\* _amortize has returned before the end of the term, at the first balance
\* that was not positive
C12_StoppedEarly ==
    /\ pc = "returned"
    /\ FLt(Zero, req.principal)
    /\ Len(am.sched) >= 2
    /\ Len(am.sched) < am.term_m
    /\ FLe(am.balances[Len(am.balances)], Zero)

\* the same call for an entirely fixed-rate loan: the variable rate is the
\* fixed one and nothing is recalculated
FixedOnly(r) == [r EXCEPT !.var_r_yr = r.fixed_r_yr, !.recalc_on_change = FALSE]

\* C13: when fixed_m >= term_m, every period _amortize records accrues
\* interest at the fixed rate, the scheduled payment is never recalculated,
\* and the schedule returned is the same for every variable rate and either
\* value of recalc_on_change: it is the schedule of the entirely fixed-rate
\* loan, whatever the two are.
C13_FixedOnlyWhenFixedCoversTerm ==
    pc \in {"amortize", "returned"} /\ am.fixed_m >= am.term_m =>
        /\ \A k \in 1..Len(am.sched) : am.sched[k] = am.pmt
        /\ am.months_left = am.term_m
        /\ pc = "returned" =>
              /\ am.pmt = _pmt(req.principal, am.i_fixed, am.term_m)
              /\ \A k \in 1..Len(am.interest) :
                    am.interest[k] = FMul(am.balances[k], am.i_fixed)
              /\ resp = _amortize(FixedOnly(req))

\* _amortize has returned a schedule of several periods for a loan whose
\* fixed phase outlasts the term, asked to recalculate at a variable rate
\* that differs from the fixed one
C13_FixedPhaseOutlastsTerm ==
    /\ pc = "returned"
    /\ req.fixed_m > req.term_m
    /\ req.var_r_yr # req.fixed_r_yr
    /\ req.recalc_on_change
    /\ Len(resp.sched) >= 2
    /\ resp = _amortize(FixedOnly(req))

(***************************************************************************)
(* Numbers of the simulators: rationals <<n, d>> in lowest terms, d > 0,   *)
(* with the non-finite floats Inf = <<1, 0>>, -Inf = <<-1, 0>> and         *)
(* NaN = <<0, 0>>.  A finite result above FloatMax in magnitude overflows  *)
(* to an infinity, as a float result above the largest double does.        *)
(***************************************************************************)
FloatMax == 16384

Inf == <<1, 0>>

NaN == <<0, 0>>

RECURSIVE Gcd(_, _)
Gcd(a, b) == IF b = 0 THEN a ELSE Gcd(b, a % b)

IsFinite(x) == x[2] # 0

IsNaN(x) == x = NaN

\* n / d for d >= 0, normalised; d = 0 gives an infinity or NaN
Q(n, d) ==
    IF d = 0 THEN <<Sgn(n), 0>>
    ELSE LET g == Gcd(Abs(n), d)
             q == Abs(n) \div d
         IN  IF q > FloatMax \/ (q = FloatMax /\ Abs(n) % d # 0) THEN <<Sgn(n), 0>>
             ELSE <<n \div g, d \div g>>

QInt(n) == Q(n, 1)

QNeg(x) == <<-x[1], x[2]>>

QAdd(x, y) ==
    IF IsNaN(x) \/ IsNaN(y) THEN NaN
    ELSE IF ~IsFinite(x) /\ ~IsFinite(y) THEN (IF x = y THEN x ELSE NaN)
    ELSE IF ~IsFinite(x) THEN x
    ELSE IF ~IsFinite(y) THEN y
    ELSE LET g == Gcd(x[2], y[2])
         IN  Q(x[1] * (y[2] \div g) + y[1] * (x[2] \div g), x[2] * (y[2] \div g))

QSub(x, y) == QAdd(x, QNeg(y))

QMul(x, y) == Q(x[1] * y[1], x[2] * y[2])

\* 1 / y, with 1 / 0 = Inf and 1 / Inf = 0
QInv(y) == IF y[1] < 0 THEN <<-y[2], -y[1]>> ELSE <<y[2], y[1]>>

QDiv(x, y) == LET r == QInv(y) IN Q(x[1] * r[1], x[2] * r[2])

QLt(x, y) ==
    /\ ~IsNaN(x) /\ ~IsNaN(y)
    /\ IF ~IsFinite(x) /\ ~IsFinite(y) THEN x[1] < y[1]
       ELSE IF ~IsFinite(x) \/ ~IsFinite(y) THEN x[1] * y[2] < y[1] * x[2]
       ELSE LET g == Gcd(x[2], y[2])
            IN  x[1] * (y[2] \div g) < y[1] * (x[2] \div g)

QLe(x, y) == ~IsNaN(x) /\ ~IsNaN(y) /\ ~QLt(y, x)

QMax(x, y) == IF QLt(x, y) THEN y ELSE x

\* exp of k units of ln 2
Exp2(k) == IF k >= 0 THEN Q(Pow2(k), 1) ELSE Q(1, Pow2(-k))

RECURSIVE QPowInt(_, _)
QPowInt(x, n) == IF n = 0 THEN QInt(1) ELSE QMul(QPowInt(x, n - 1), x)

RECURSIVE QSum(_)
QSum(xs) == IF xs = <<>> THEN QInt(0) ELSE QAdd(QSum(SubSeq(xs, 1, Len(xs) - 1)), xs[Len(xs)])

\* floor of a finite rational
QFloor(x) == x[1] \div x[2]

\* np.rint of n / d, d > 0: the nearest integer, ties to even
QRint(n, d) ==
    LET f == n \div d
        r == n - f * d
    IN  IF 2 * r < d THEN f
        ELSE IF 2 * r > d THEN f + 1
        ELSE IF f % 2 = 0 THEN f ELSE f + 1

\* np.round(x, dec)
QRound(x, dec) ==
    IF ~IsFinite(x) THEN x
    ELSE Q(QRint(x[1] * TenPow(dec), x[2]), TenPow(dec))

\* np.nan_to_num(x, nan=0.0, posinf=0.0, neginf=0.0)
Sanitize(x) == IF IsFinite(x) THEN x ELSE QInt(0)

\* the sequence xs with x inserted before the first larger entry
RECURSIVE Insert(_, _)
Insert(xs, x) ==
    IF xs = <<>> THEN <<x>>
    ELSE IF QLt(x, xs[1]) THEN <<x>> \o xs
    ELSE <<xs[1]>> \o Insert(Tail(xs), x)

RECURSIVE Sort(_)
Sort(xs) == IF xs = <<>> THEN <<>> ELSE Insert(Sort(Tail(xs)), xs[1])

\* numpy's _lerp(a, b, t)
Lerp(a, b, t) ==
    LET diff_b_a == QSub(b, a)
    IN  IF QLe(Q(1, 2), t) THEN QSub(b, QMul(diff_b_a, QSub(QInt(1), t)))
        ELSE QAdd(a, QMul(diff_b_a, t))

\* np.percentile(xs, q), linear interpolation between the closest ranks
Percentile(xs, q) ==
    LET arr      == Sort(xs)
        n        == Len(arr)
        virtual  == Q((n - 1) * q, 100)
        previous == QFloor(virtual)
        next     == IF previous + 1 > n - 1 THEN n - 1 ELSE previous + 1
        gamma    == QSub(virtual, QInt(previous))
    IN  IF \E k \in 1..n : IsNaN(xs[k]) THEN NaN
        ELSE Lerp(arr[previous + 1], arr[next + 1], gamma)

\* column t (1-based) of an ensemble
Column(w, t) == [i \in 1..Len(w) |-> w[i][t]]

\* np.percentile(w, q, axis=0)
PercentileBand(w, q) == [t \in 1..Len(w[1]) |-> Percentile(Column(w, t), q)]

\* np.maximum(x, y): the larger, NaN when either is NaN
Maximum(x, y) == IF IsNaN(x) \/ IsNaN(y) THEN NaN ELSE QMax(x, y)

\* np.maximum.accumulate
RECURSIVE RunningMax(_)
RunningMax(xs) ==
    IF Len(xs) <= 1 THEN xs
    ELSE LET before == RunningMax(SubSeq(xs, 1, Len(xs) - 1))
         IN  Append(before, Maximum(before[Len(before)], xs[Len(xs)]))

\* np.nan_to_num(x): NaN to 0, an infinity to the largest finite float
NanToNum(x) ==
    IF IsNaN(x) THEN QInt(0)
    ELSE IF ~IsFinite(x) THEN QInt(x[1] * FloatMax)
    ELSE x

\* the least entry of a sequence without NaN
QMin(xs) == CHOOSE v \in {xs[k] : k \in 1..Len(xs)} : \A k \in 1..Len(xs) : QLe(v, xs[k])

Mean(xs) == QDiv(QSum(xs), QInt(Len(xs)))

\* np.min: NaN when an entry is NaN
Amin(xs) == IF \E k \in 1..Len(xs) : IsNaN(xs[k]) THEN NaN ELSE QMin(xs)

\* np.argmin (0-based): the first NaN if there is one, else the first least entry
ArgMin(xs) ==
    LET nans   == {k \in 1..Len(xs) : IsNaN(xs[k])}
        leasts == {k \in 1..Len(xs) : \A j \in 1..Len(xs) : QLe(xs[k], xs[j])}
        first  == IF nans # {} THEN nans ELSE leasts
    IN  (CHOOSE k \in first : \A j \in first : k <= j) - 1

(***************************************************************************)
(* Bounds of the simulators                                                *)
(***************************************************************************)
\* paths of an ensemble (n_sims)
NSims == 3

\* years of a horizon
MaxYears == 2

\* the log-returns, in units of ln 2, a period with volatility can take
LogReturns == {-1, 1}

Paths == 1..NSims

(***************************************************************************)
(* apps/compound: simulate_paths.  expected_return and expense_ratio are   *)
(* annual log-returns in units of ln 2.                                    *)
(***************************************************************************)
\* lines 36-37 and 45: what drift + vol * z can be in one period
CompoundLogReturns(r) ==
    IF r.volatility = 0
    THEN {(r.expected_return - r.expense_ratio) \div r.frequency}
    ELSE LogReturns

\* lines 41-42: the contribution added at the end of period t (1-based)
ContribSchedule(r) ==
    [t \in 1..(r.years * r.frequency) |->
        QDiv(QMul(r.annual_contribution,
                  QPowInt(QAdd(QInt(1), r.contribution_growth), (t - 1) \div r.frequency)),
             QInt(r.frequency))]

\* a recurrence that forgets the contribution
WealthStepNoFlow(w, growth_factor, contribution) == QMul(w, growth_factor)

\* line 53
WealthStep(w, growth_factor, contribution) == QAdd(QMul(w, growth_factor), contribution)

\* lines 60-61
tolist_safe(arr) == [t \in 1..Len(arr) |-> Sanitize(arr[t])]

\* a drawdown measured upwards from the running peak
DrawdownFlipped(v, running_max) ==
    QDiv(QSub(running_max, v), IF QLe(running_max, QInt(0)) THEN QInt(1) ELSE running_max)

\* lines 84-86: the drawdown of v under the running peak, 1.0 standing in
\* for a peak that is not positive
DrawdownSafe(v, running_max) ==
    QDiv(QSub(v, running_max), IF QLe(running_max, QInt(0)) THEN QInt(1) ELSE running_max)

\* lines 82-90
CompoundDrawdowns(median_path) ==
    LET running_max == RunningMax(median_path)
    IN  [t \in 1..Len(median_path) |-> DrawdownSafe(median_path[t], running_max[t])]

\* lines 63-133, without the inflation-adjusted band and the CAGR
SimulateResponse(r, w) ==
    LET T           == r.years * r.frequency
        percentiles == [p10 |-> tolist_safe(PercentileBand(w, 10)),
                        p25 |-> tolist_safe(PercentileBand(w, 25)),
                        p50 |-> tolist_safe(PercentileBand(w, 50)),
                        p75 |-> tolist_safe(PercentileBand(w, 75)),
                        p90 |-> tolist_safe(PercentileBand(w, 90))]
        final       == Column(w, T + 1)
        drawdowns   == CompoundDrawdowns(percentiles.p50)
        max_dd      == IF Len(drawdowns) > 1 THEN QMin(Tail(drawdowns)) ELSE QInt(0)
    IN  [ times       |-> [t \in 1..(T + 1) |-> t - 1],
          percentiles |-> percentiles,
          summary     |-> [expected_final |-> NanToNum(Mean(final)),
                           median_final   |-> NanToNum(Percentile(final, 50)),
                           p10_final      |-> NanToNum(Percentile(final, 10)),
                           p90_final      |-> NanToNum(Percentile(final, 90))],
          insights    |-> [median_max_drawdown |-> NanToNum(max_dd),
                           total_contrib       |-> QSum(ContribSchedule(r))] ]

\* requests without volatility: the ensemble is determined by the request
CompoundCalm ==
    { [initial |-> i, annual_contribution |-> a, contribution_growth |-> g,
       years |-> y, n_sims |-> NSims, expected_return |-> mx[1] * f, volatility |-> 0,
       expense_ratio |-> mx[2] * f, frequency |-> f] :
        i \in {QInt(0), QInt(1000)}, a \in {QInt(0), QInt(12000)},
        g \in {QInt(0), Q(1, 2)}, y \in 1..MaxYears,
        mx \in {<<0, 0>>, <<1, 0>>, <<1, 1>>}, f \in {1, 12} }

\* requests with volatility
CompoundVolatile ==
    { [initial |-> QInt(ia[1]), annual_contribution |-> QInt(ia[2]),
       contribution_growth |-> QInt(0),
       years |-> y, n_sims |-> NSims, expected_return |-> 0, volatility |-> 1,
       expense_ratio |-> 0, frequency |-> 1] :
        ia \in {<<8192, 0>>, <<0, 12>>, <<0, 0>>}, y \in 1..MaxYears }

InitCompound ==
    /\ req \in CompoundCalm \cup CompoundVolatile
    /\ pc = "simulate"
    /\ wealth = [i \in Paths |-> <<req.initial>>]
    /\ loc = None
    /\ resp = None
    /\ am = None /\ main = None /\ rng = None /\ thr = None

\* lines 51-53 for one t, with the shocks of line 45 that t uses
CompoundPeriod ==
    /\ pc = "simulate"
    /\ Len(wealth[1]) <= req.years * req.frequency
    /\ \E shocks \in [Paths -> CompoundLogReturns(req)] :
          wealth' = [i \in Paths |->
                        Append(wealth[i],
                               WealthStep(wealth[i][Len(wealth[i])], Exp2(shocks[i]),
                                          ContribSchedule(req)[Len(wealth[i])]))]
    /\ UNCHANGED <<pc, req, resp, loc, mortgageVars, rngVars>>

\* lines 55-133
CompoundRespond ==
    /\ pc = "simulate"
    /\ Len(wealth[1]) = req.years * req.frequency + 1
    /\ resp' = SimulateResponse(req, wealth)
    /\ loc' = [median_path |-> resp'.percentiles.p50,
               drawdowns   |-> CompoundDrawdowns(resp'.percentiles.p50)]
    /\ pc' = "done"
    /\ UNCHANGED <<req, wealth, mortgageVars, rngVars>>

NextCompound == CompoundPeriod \/ CompoundRespond

SpecCompound == InitCompound /\ [][NextCompound]_vars

(***************************************************************************)
(* Claims about simulate_paths                                             *)
(***************************************************************************)
ZeroReturn(r) == r.expected_return = 0 /\ r.volatility = 0 /\ r.expense_ratio = 0

\* the end-to-end scenario: twelve monthly contributions of 1000
TwelveThousand ==
    [initial |-> QInt(0), annual_contribution |-> QInt(12000),
     contribution_growth |-> QInt(0), years |-> 1, n_sims |-> NSims,
     expected_return |-> 0, volatility |-> 0, expense_ratio |-> 0, frequency |-> 12]

\* C4: with expected_return, volatility and expense_ratio all 0, every path's
\* wealth at period t is initial plus the first t entries of the contribution
\* schedule, the terminal wealth is initial + total_contrib, and the scenario
\* of twelve contributions of 1000 ends at exactly 12000 in every path and in
\* every returned band.
C4_WealthIsInitialPlusContributions ==
    pc \in {"simulate", "done"} /\ ZeroReturn(req) =>
        /\ \A i \in Paths : \A t \in 1..Len(wealth[i]) :
              wealth[i][t] = QAdd(req.initial, QSum(SubSeq(ContribSchedule(req), 1, t - 1)))
        /\ pc = "done" =>
              LET T == req.years * req.frequency
                  terminal == QAdd(req.initial, resp.insights.total_contrib)
              IN  /\ \A i \in Paths : wealth[i][T + 1] = terminal
                  /\ IsFinite(terminal) =>
                        /\ resp.summary.median_final = terminal
                        /\ resp.percentiles.p10[T + 1] = terminal
                        /\ resp.percentiles.p50[T + 1] = terminal
                        /\ resp.percentiles.p90[T + 1] = terminal
                  /\ req = TwelveThousand =>
                        /\ \A t \in 1..T : ContribSchedule(req)[t] = QInt(1000)
                        /\ terminal = QInt(12000)

\* the scenario has run to its response and ends at 12000
C4_TwelveThousandReturned ==
    /\ pc = "done"
    /\ req = TwelveThousand
    /\ Len(wealth[1]) = 13
    /\ resp.percentiles.p50[13] = QInt(12000)
    /\ resp.summary.median_final = QInt(12000)

\* C5: in every column of the bands simulate_paths returns (after
\* tolist_safe), p10 <= p25 <= p50 <= p75 <= p90.
C5_ReturnedBandsOrdered ==
    pc = "done" =>
        \A t \in 1..Len(resp.percentiles.p50) :
            /\ QLe(resp.percentiles.p10[t], resp.percentiles.p25[t])
            /\ QLe(resp.percentiles.p25[t], resp.percentiles.p50[t])
            /\ QLe(resp.percentiles.p50[t], resp.percentiles.p75[t])
            /\ QLe(resp.percentiles.p75[t], resp.percentiles.p90[t])

(***************************************************************************)
(* apps/fire: the /fire handler.  The expected returns and expense_ratio   *)
(* are annual log-returns in units of ln 2.                                *)
(***************************************************************************)
\* lines 77 and 84: the schedules are bumped every 12 periods
BumpEvery == 12

\* lines 63-65
T_acc(r) == r.years_to_retire * r.frequency

T_ret(r) == r.years_in_retirement * r.frequency

\* lines 73-78: contrib[t - 1]
Contrib(r, t) ==
    IF t <= T_acc(r)
    THEN QMul(r.monthly_disposable,
              QPowInt(QAdd(QInt(1), r.inflation), (t - 1) \div BumpEvery))
    ELSE QInt(0)

\* lines 81-85: draw[t - 1]
Draw(r, t) ==
    IF t > T_acc(r)
    THEN QMul(r.monthly_drawdown,
              QPowInt(QAdd(QInt(1), r.inflation), (t - 1 - T_acc(r)) \div BumpEvery))
    ELSE QInt(0)

\* line 110
Flow(r, t) == QSub(Contrib(r, t), Draw(r, t))

\* lines 88-100: what drift + shock can be in period t
FireLogReturns(r, t) ==
    IF r.volatility = 0
    THEN {((IF t <= T_acc(r) THEN r.expected_return_accum ELSE r.expected_return_ret)
             - r.expense_ratio) \div r.frequency}
    ELSE LogReturns

\* a balance that may go negative
NoFloor(w) == w

\* line 112
Floor0(w) == QMax(w, QInt(0))

\* lines 108-112
FireStep(w, factor, flow) == Floor0(QAdd(QMul(w, factor), flow))

\* a longevity counted from the start of the simulation
TimeToZeroFromStart(path, r) ==
    LET hits == {t \in (T_acc(r) + 1)..(T_acc(r) + T_ret(r)) : QLe(path[t + 1], QInt(0))}
    IN  IF hits = {} THEN T_acc(r) + T_ret(r)
        ELSE CHOOSE t \in hits : \A u \in hits : t <= u

\* lines 130-139: the longevity of one path (path[t + 1] is the wealth at t)
TimeToZero(path, r) ==
    LET hits == {t \in (T_acc(r) + 1)..(T_acc(r) + T_ret(r)) : QLe(path[t + 1], QInt(0))}
    IN  IF hits = {} THEN T_ret(r)
        ELSE Max(0, (CHOOSE t \in hits : \A u \in hits : t <= u) - T_acc(r))

\* line 123
ProbNonzeroEnd(w) ==
    Mean([i \in 1..Len(w) |-> IF QLt(QInt(0), w[i][Len(w[i])]) THEN QInt(1) ELSE QInt(0)])

\* lines 28-29 and 37-38
RoundSanitized(band, d) == [t \in 1..Len(band) |-> QRound(Sanitize(band[t]), d)]

\* lines 115-166
FireResponse(r, w) ==
    LET d            == Max(0, r.decimals)
        terminal     == Column(w, Len(w[1]))
        time_to_zero == [i \in 1..Len(w) |-> QInt(TimeToZero(w[i], r))]
    IN  [ percentiles |-> [p10 |-> RoundSanitized(PercentileBand(w, 10), d),
                           p25 |-> RoundSanitized(PercentileBand(w, 25), d),
                           p50 |-> RoundSanitized(PercentileBand(w, 50), d),
                           p75 |-> RoundSanitized(PercentileBand(w, 75), d),
                           p90 |-> RoundSanitized(PercentileBand(w, 90), d)],
          summary |-> [median_terminal  |-> QRound(NanToNum(Percentile(terminal, 50)), d),
                       prob_nonzero_end |-> QRound(NanToNum(ProbNonzeroEnd(w)), d),
                       median_lasting_months  |-> QFloor(Percentile(time_to_zero, 50)),
                       retirement_start_index |-> T_acc(r)] ]

\* the (years_to_retire, years_in_retirement) pairs of the calm requests
FireYears == {h \in (0..MaxYears) \X (0..MaxYears) : h[1] + h[2] <= MaxYears + 1}

\* requests without volatility
FireCalm ==
    { [initial_balance |-> ib, monthly_disposable |-> md, monthly_drawdown |-> dr,
       years_to_retire |-> h[1], years_in_retirement |-> h[2],
       expected_return_accum |-> mi[1] * f, expected_return_ret |-> 0, volatility |-> 0,
       inflation |-> mi[2], expense_ratio |-> 0, n_sims |-> NSims, frequency |-> f,
       decimals |-> 1] :
        ib \in {QInt(0), QInt(1000)}, md \in {QInt(0), QInt(500)},
        dr \in {QInt(0), QInt(2500)}, h \in FireYears,
        mi \in {<<0, QInt(0)>>, <<1, QInt(0)>>, <<0, Q(1, 2)>>}, f \in {1, 12} }

\* requests with volatility, over at most MaxYears periods
FireVolatile ==
    { r \in [initial_balance : {QInt(4)}, monthly_disposable : {QInt(1)},
             monthly_drawdown : {QInt(2)},
             years_to_retire : 0..MaxYears, years_in_retirement : 0..MaxYears,
             expected_return_accum : {0}, expected_return_ret : {0}, volatility : {1},
             inflation : {QInt(0)}, expense_ratio : {0}, n_sims : {NSims},
             frequency : {1}, decimals : {1}] :
        r.years_to_retire + r.years_in_retirement <= MaxYears }

InitFire ==
    /\ req \in FireCalm \cup FireVolatile
    /\ pc = "fire"
    /\ wealth = [i \in Paths |-> <<req.initial_balance>>]
    /\ loc = None
    /\ resp = None
    /\ am = None /\ main = None /\ rng = None /\ thr = None

\* lines 106-112 for one t, with the shocks of line 93 that t uses
FirePeriod ==
    /\ pc = "fire"
    /\ Len(wealth[1]) <= T_acc(req) + T_ret(req)
    /\ LET t == Len(wealth[1])
       IN  \E shocks \in [Paths -> FireLogReturns(req, t)] :
              wealth' = [i \in Paths |->
                            Append(wealth[i],
                                   FireStep(wealth[i][t], Exp2(shocks[i]), Flow(req, t)))]
    /\ UNCHANGED <<pc, req, resp, loc, mortgageVars, rngVars>>

\* lines 114-166
FireRespond ==
    /\ pc = "fire"
    /\ Len(wealth[1]) = T_acc(req) + T_ret(req) + 1
    /\ resp' = FireResponse(req, wealth)
    /\ loc' = [time_to_zero     |-> [i \in Paths |-> TimeToZero(wealth[i], req)],
               prob_nonzero_end |-> ProbNonzeroEnd(wealth)]
    /\ pc' = "done"
    /\ UNCHANGED <<req, wealth, mortgageVars, rngVars>>

NextFire == FirePeriod \/ FireRespond

SpecFire == InitFire /\ [][NextFire]_vars

(***************************************************************************)
(* Claims about /fire                                                      *)
(***************************************************************************)
\* wealth of path i at period t
WealthAt(i, t) == wealth[i][t + 1]

NoRiskNoSpending(r) == r.volatility = 0 /\ r.monthly_drawdown = QInt(0)

\* C2 as stated: with volatility 0 and monthly_drawdown 0 every path's
\* longevity is the retirement horizon T_ret and prob_nonzero_end is 1.0,
\* whatever the other inputs.
C2_EveryPathLastsTheHorizon ==
    pc = "done" /\ NoRiskNoSpending(req) =>
        /\ \A i \in Paths : loc.time_to_zero[i] = T_ret(req)
        /\ loc.prob_nonzero_end = QInt(1)
        /\ resp.summary.prob_nonzero_end = QInt(1)

\* C2 as amended: with volatility 0 and monthly_drawdown 0, a path whose
\* wealth is positive at the retirement-start boundary (as it is when
\* initial_balance > 0, or monthly_disposable > 0 and years_to_retire >= 1)
\* has longevity T_ret and ends positive, so prob_nonzero_end is 1.0; a path
\* whose wealth is 0 at the boundary ends at 0 and has longevity 1 (0 when
\* T_ret = 0), and prob_nonzero_end is 0.0.
C2_PositiveAtRetirementLastsTheHorizon ==
    pc = "done" /\ NoRiskNoSpending(req) =>
        LET T == T_acc(req) + T_ret(req)
            funded == \/ QLt(QInt(0), req.initial_balance)
                      \/ QLt(QInt(0), req.monthly_disposable) /\ req.years_to_retire >= 1
        IN  /\ \A i \in Paths :
                  /\ funded <=> QLt(QInt(0), WealthAt(i, T_acc(req)))
                  /\ QLt(QInt(0), WealthAt(i, T_acc(req))) =>
                        /\ loc.time_to_zero[i] = T_ret(req)
                        /\ QLt(QInt(0), WealthAt(i, T))
                  /\ WealthAt(i, T_acc(req)) = QInt(0) =>
                        /\ loc.time_to_zero[i] = (IF T_ret(req) = 0 THEN 0 ELSE 1)
                        /\ WealthAt(i, T) = QInt(0)
            /\ loc.prob_nonzero_end = (IF funded THEN QInt(1) ELSE QInt(0))
            /\ resp.summary.prob_nonzero_end = loc.prob_nonzero_end

\* a request that starts from nothing, saves, and then spends nothing has
\* come back with every path lasting the whole retirement
C2_SaverLastsTheHorizon ==
    /\ pc = "done"
    /\ NoRiskNoSpending(req)
    /\ req.initial_balance = QInt(0)
    /\ QLt(QInt(0), req.monthly_disposable)
    /\ req.years_to_retire >= 1 /\ req.years_in_retirement >= 1
    /\ \A i \in Paths : loc.time_to_zero[i] = T_ret(req)
    /\ resp.summary.prob_nonzero_end = QInt(1)

\* C9 as stated: every period's wealth is floored at zero, and zero is
\* absorbing in both phases: once a path is at 0 it is at 0 in every later
\* period.
C9_ZeroAbsorbingEverywhere ==
    pc \in {"fire", "done"} =>
        \A i \in Paths : \A t \in 0..(Len(wealth[i]) - 1) :
            /\ t >= 1 => QLe(QInt(0), WealthAt(i, t))
            /\ WealthAt(i, t) = QInt(0) =>
                  \A u \in (t + 1)..(Len(wealth[i]) - 1) : WealthAt(i, u) = QInt(0)

\* C9 as amended: every period's wealth is floored at zero; a path at 0 in
\* period t holds the floored net flow of period t + 1 next, so zero is
\* absorbing from the retirement-start boundary on (where the flow is the
\* negated drawdown), while in the accumulation phase a path at 0 is lifted
\* again by the next contribution.
C9_ZeroAbsorbingInRetirement ==
    pc \in {"fire", "done"} =>
        \A i \in Paths : \A t \in 0..(Len(wealth[i]) - 1) :
            /\ t >= 1 => QLe(QInt(0), WealthAt(i, t))
            /\ WealthAt(i, t) = QInt(0) /\ t + 1 <= Len(wealth[i]) - 1 =>
                  WealthAt(i, t + 1) = Floor0(Flow(req, t + 1))
            /\ WealthAt(i, t) = QInt(0) /\ t >= T_acc(req) =>
                  \A u \in (t + 1)..(Len(wealth[i]) - 1) : WealthAt(i, u) = QInt(0)

\* a path that entered retirement with money has run out before the last
\* period and is still at 0 at the end
C9_DepletedInRetirement ==
    /\ pc = "done"
    /\ \E i \in Paths :
          /\ QLt(QInt(0), WealthAt(i, T_acc(req)))
          /\ \E t \in (T_acc(req) + 1)..(T_acc(req) + T_ret(req) - 1) :
                WealthAt(i, t) = QInt(0)
          /\ WealthAt(i, T_acc(req) + T_ret(req)) = QInt(0)

(***************************************************************************)
(* apps/drawdown: drawdown.  The ensemble variable holds prices.           *)
(***************************************************************************)
\* lines 58-59: what drift + shock can be in one period
DrawdownLogReturns(r) ==
    IF r.volatility = 0
    THEN {(r.expected_return - r.expense_ratio) \div r.frequency}
    ELSE LogReturns

\* line 65 for one entry
Drawdown(price, rolling_peak) == QDiv(QSub(price, rolling_peak), rolling_peak)

\* lines 64-65 for one path (also lines 79-80 for the median path)
PathDrawdowns(path) ==
    LET rolling_peak == RunningMax(path)
    IN  [t \in 1..Len(path) |-> Drawdown(path[t], rolling_peak[t])]

\* lines 82-87: rec_idx after the loop (indices 0-based)
RecIdx(med_path, trough_idx, prev_peak) ==
    LET hits == {j \in trough_idx..(Len(med_path) - 1) : QLe(prev_peak, med_path[j + 1])}
    IN  IF hits = {} THEN trough_idx
        ELSE CHOOSE j \in hits : \A k \in hits : j <= k

\* lines 78-88
Recovery(prices) ==
    LET med_path   == PercentileBand(prices, 50)
        med_peak   == RunningMax(med_path)
        med_dd     == PathDrawdowns(med_path)
        trough_idx == ArgMin(med_dd)
        prev_peak  == med_peak[trough_idx + 1]
        rec_idx    == RecIdx(med_path, trough_idx, prev_peak)
    IN  [med_path |-> med_path, med_peak |-> med_peak, med_dd |-> med_dd,
         trough_idx |-> trough_idx, prev_peak |-> prev_peak, rec_idx |-> rec_idx,
         recovery_months |-> Max(0, rec_idx - trough_idx)]

\* lines 64-108
DrawdownResponse(r, prices) ==
    LET d  == Max(0, r.decimals)
        dd == [i \in 1..Len(prices) |-> PathDrawdowns(prices[i])]
        max_dd_per_path == [i \in 1..Len(prices) |-> Amin(dd[i])]
    IN  [ percentiles |-> [p10 |-> RoundSanitized(PercentileBand(dd, 10), d),
                           p25 |-> RoundSanitized(PercentileBand(dd, 25), d),
                           p50 |-> RoundSanitized(PercentileBand(dd, 50), d),
                           p75 |-> RoundSanitized(PercentileBand(dd, 75), d),
                           p90 |-> RoundSanitized(PercentileBand(dd, 90), d)],
          summary |-> [median_max_drawdown |-> QRound(NanToNum(Percentile(max_dd_per_path, 50)), d),
                       p10_max_drawdown    |-> QRound(NanToNum(Percentile(max_dd_per_path, 10)), d),
                       p90_max_drawdown    |-> QRound(NanToNum(Percentile(max_dd_per_path, 90)), d),
                       median_recovery_months |-> Recovery(prices).recovery_months] ]

\* the (years, frequency) pairs of the requests: at most MaxYears + 1 periods
Horizons == {h \in (1..MaxYears) \X {1, 3} : h[1] * h[2] <= MaxYears + 1}

\* requests without volatility; a drift of 8 overflows within two periods
DrawdownCalm ==
    { [years |-> h[1], frequency |-> h[2], expected_return |-> mx[1] * h[2],
       expense_ratio |-> mx[2] * h[2], volatility |-> 0, n_sims |-> NSims,
       decimals |-> dec] :
        h \in Horizons, mx \in {<<0, 0>>, <<1, 0>>, <<0, 1>>, <<8, 0>>}, dec \in {0, 1} }

\* requests with volatility, over one year
DrawdownVolatile ==
    { [years |-> h[1], frequency |-> h[2], expected_return |-> 0,
       expense_ratio |-> 0, volatility |-> 1, n_sims |-> NSims, decimals |-> 1] :
        h \in {g \in Horizons : g[1] = 1} }

InitDrawdown ==
    /\ req \in DrawdownCalm \cup DrawdownVolatile
    /\ pc = "drawdown"
    /\ wealth = [i \in Paths |-> <<QInt(1)>>]
    /\ loc = None
    /\ resp = None
    /\ am = None /\ main = None /\ rng = None /\ thr = None

\* lines 59-62 for one column of prices
DrawdownPeriod ==
    /\ pc = "drawdown"
    /\ Len(wealth[1]) <= req.years * req.frequency
    /\ \E shock \in [Paths -> DrawdownLogReturns(req)] :
          wealth' = [i \in Paths |->
                        Append(wealth[i], QMul(wealth[i][Len(wealth[i])], Exp2(shock[i])))]
    /\ UNCHANGED <<pc, req, resp, loc, mortgageVars, rngVars>>

\* lines 64-108
DrawdownRespond ==
    /\ pc = "drawdown"
    /\ Len(wealth[1]) = req.years * req.frequency + 1
    /\ resp' = DrawdownResponse(req, wealth)
    /\ loc' = [dd |-> [i \in Paths |-> PathDrawdowns(wealth[i])]] @@ Recovery(wealth)
    /\ pc' = "analysed"
    /\ UNCHANGED <<req, wealth, mortgageVars, rngVars>>

NextDrawdown == DrawdownPeriod \/ DrawdownRespond

SpecDrawdown == InitDrawdown /\ [][NextDrawdown]_vars

\* both programs that measure drawdowns
InitSeries == InitCompound \/ InitDrawdown

NextSeries == NextCompound \/ NextDrawdown

SpecSeries == InitSeries /\ [][NextSeries]_vars

(***************************************************************************)
(* Claims about the drawdown measures                                      *)
(***************************************************************************)
\* the entries of a series up to period t are finite numbers
FiniteUpTo(series, t) == \A k \in 1..t : IsFinite(series[k])

\* a drawdown series is never positive and is 0 wherever its series sets a
\* new running peak, so it is all zero when the series never falls
NeverPositive(series, dds) ==
    /\ \A t \in 1..Len(series) :
          /\ QLe(dds[t], QInt(0))
          /\ series[t] = RunningMax(series)[t] => dds[t] = QInt(0)
    /\ (\A t \in 2..Len(series) : QLe(series[t - 1], series[t])) =>
          \A t \in 1..Len(series) : dds[t] = QInt(0)

\* the same, for the periods up to which the series is finite; from the
\* first period that is not finite on, the drawdown is NaN
NeverPositiveWhileFinite(series, dds) ==
    /\ \A t \in 1..Len(series) :
          /\ FiniteUpTo(series, t) =>
                /\ QLe(dds[t], QInt(0))
                /\ series[t] = RunningMax(series)[t] => dds[t] = QInt(0)
          /\ ~FiniteUpTo(series, t) => IsNaN(dds[t])
    /\ /\ FiniteUpTo(series, Len(series))
       /\ \A t \in 2..Len(series) : QLe(series[t - 1], series[t])
       => \A t \in 1..Len(series) : dds[t] = QInt(0)

C10_UnrecoveredReportsLastIndex ==
    pc = "analysed" /\ FiniteUpTo(loc.med_path, Len(loc.med_path)) =>
        LET last == Len(loc.med_path) - 1
            hits == {j \in loc.trough_idx..last : QLe(loc.prev_peak, loc.med_path[j + 1])}
        IN  /\ loc.trough_idx = ArgMin(loc.med_dd)
            /\ loc.prev_peak = loc.med_peak[loc.trough_idx + 1]
            /\ hits # {} =>
                  resp.summary.median_recovery_months =
                      (CHOOSE j \in hits : \A k \in hits : j <= k) - loc.trough_idx
            /\ hits = {} =>
                  resp.summary.median_recovery_months = last - loc.trough_idx

(***************************************************************************)
(* The generator behind np.random: one state per process, shared by the    *)
(* threads that run the requests of an app.  A request seeds the generator *)
(* (if its app and its seed say so) and later draws its shocks in one      *)
(* call.  The generator is a small linear congruential one.                *)
(***************************************************************************)
\* states of the generator
RngStates == 16

\* normals one request draws (n_sims * T)
DrawsPerRequest == 2

Threads == {1, 2}

Apps == {"compound", "fire", "drawdown"}

\* seed: Optional[int], as <<>> or <<n>>
Seeds == {None, <<1>>, <<2>>}

\* the state np.random.seed(n) installs
SeedState(n) == (7 * n + 1) % RngStates

\* the state after one draw
NextState(s) == (5 * s + 3) % RngStates

\* the normal a draw returns in state s
Output(s) == s

\* the state after k draws from s
RECURSIVE Advance(_, _)
Advance(s, k) == IF k = 0 THEN s ELSE Advance(NextState(s), k - 1)

\* the k normals drawn from s
Stream(s, k) == [j \in 1..k |-> Output(Advance(s, j - 1))]

\* compound line 33 seeds whatever the seed is (None: from fresh entropy);
\* fire lines 60-61 and drawdown lines 51-52 seed only when a seed is given
SeededStates(app, seed) ==
    IF seed # None THEN {SeedState(seed[1])}
    ELSE IF app = "compound" THEN 0..(RngStates - 1)
    ELSE {}

InitSeeding ==
    /\ req \in [app : Apps]
    /\ rng \in 0..(RngStates - 1)
    /\ thr \in [Threads -> [pc : {"seed"}, seed : Seeds, shocks : {None}]]
    /\ pc = "serving"
    /\ resp = None /\ loc = None /\ wealth = None
    /\ am = None /\ main = None

\* a thread runs its request's seeding statement
Seed(t) ==
    /\ thr[t].pc = "seed"
    /\ IF SeededStates(req.app, thr[t].seed) = {}
       THEN rng' = rng
       ELSE rng' \in SeededStates(req.app, thr[t].seed)
    /\ thr' = [thr EXCEPT ![t].pc = "draw"]
    /\ UNCHANGED <<pc, req, resp, loc, wealth, mortgageVars>>

\* a thread draws its request's shocks
DrawShocks(t) ==
    /\ thr[t].pc = "draw"
    /\ thr' = [thr EXCEPT ![t].pc = "done", ![t].shocks = Stream(rng, DrawsPerRequest)]
    /\ rng' = Advance(rng, DrawsPerRequest)
    /\ UNCHANGED <<pc, req, resp, loc, wealth, mortgageVars>>

NextSeeding == \E t \in Threads : Seed(t) \/ DrawShocks(t)

SpecSeeding == InitSeeding /\ [][NextSeeding]_vars

\* C3: a request that supplies a seed observes, between its seeding step and
\* its draw step, exactly the draws of its own seed's stream, under every
\* interleaving with the other requests of the process; so two requests with
\* the same seed draw identical shocks.
C3_SeededDrawsArePrivate ==
    /\ \A t \in Threads :
          thr[t].pc = "done" /\ thr[t].seed # None =>
              thr[t].shocks = Stream(SeedState(thr[t].seed[1]), DrawsPerRequest)
    /\ \A t, u \in Threads :
          /\ thr[t].pc = "done" /\ thr[u].pc = "done"
          /\ thr[t].seed # None /\ thr[t].seed = thr[u].seed
          => thr[t].shocks = thr[u].shocks

(***************************************************************************)
(* Claims about the cash-flow schedules                                    *)
(***************************************************************************)
\* both programs that build a schedule
InitSchedules == InitCompound \/ InitFire

NextSchedules == NextCompound \/ NextFire

SpecSchedules == InitSchedules /\ [][NextSchedules]_vars

\* the entries first..last of sched, when none has overflowed, start at
\* base, stay constant within a year of frequency periods and are multiplied
\* by 1 + growth at each year boundary
SteppedYearly(sched, first, last, base, growth, frequency) ==
    (\A t \in first..last : IsFinite(sched[t])) =>
        /\ first <= last => sched[first] = base
        /\ \A t \in first..(last - 1) :
              sched[t + 1] = IF (t - first + 1) % frequency = 0
                             THEN QMul(sched[t], QAdd(QInt(1), growth))
                             ELSE sched[t]
        /\ growth = QInt(0) => \A t \in first..last : sched[t] = base

\* C11: the contribution schedule of /simulate and the contribution and
\* withdrawal schedules of /fire hold the per-period amount constant within a
\* year and multiply it by (1 + growth) once every frequency periods; with
\* growth 0 they are constant; in /fire contributions are nonzero only before
\* T_acc and withdrawals only from T_acc on.
C11_SchedulesStepOncePerYear ==
    /\ pc \in {"simulate", "done"} /\ "initial" \in DOMAIN req =>
          SteppedYearly(ContribSchedule(req), 1, req.years * req.frequency,
                        QDiv(req.annual_contribution, QInt(req.frequency)),
                        req.contribution_growth, req.frequency)
    /\ pc \in {"fire", "done"} /\ "initial_balance" \in DOMAIN req =>
          LET T       == T_acc(req) + T_ret(req)
              contrib == [t \in 1..T |-> Contrib(req, t)]
              draw    == [t \in 1..T |-> Draw(req, t)]
          IN  /\ SteppedYearly(contrib, 1, T_acc(req), req.monthly_disposable,
                               req.inflation, req.frequency)
              /\ SteppedYearly(draw, T_acc(req) + 1, T, req.monthly_drawdown,
                               req.inflation, req.frequency)
              /\ \A t \in (T_acc(req) + 1)..T : contrib[t] = QInt(0)
              /\ \A t \in 1..T_acc(req) : draw[t] = QInt(0)

====
